---- MODULE Spec2Model ----
(***************************************************************************)
(* eth/vm/code_stream.py: CodeStream, a cursor over immutable bytecode     *)
(* with a memoized classifier telling opcode bytes from PUSH data.         *)
(*                                                                         *)
(* Offsets are 0-based as in the source; the TLA+ sequence `code` holds    *)
(* the byte at offset i in code[i + 1].                                    *)
(***************************************************************************)
EXTENDS Integers, Sequences, FiniteSets, TLC

VARIABLES
    code,               \* _raw_code_bytes (and the BytesIO's buffer)
    pc,                 \* stream.tell()
    valid_positions,    \* self.valid_positions
    invalid_positions,  \* self.invalid_positions
    anchors,            \* anchor_pc of every seek() scope now open, innermost first
    frames,             \* is_valid_opcode invocations now scanning, innermost first
    ret,                \* value an is_valid_opcode invocation has just returned: <<>> or <<b>>
    call,               \* history: the current / latest top-level is_valid_opcode call
    hist,               \* history: every invocation that returned, every scan begun
    last                \* history: the latest cursor operation and what it returned

vars == <<code, pc, valid_positions, invalid_positions, anchors, frames, ret,
          call, hist, last>>

cursor == <<pc, anchors, last>>
memo == <<valid_positions, invalid_positions>>

----------------------------------------------------------------------------
(* Program constants *)

\* opcode_values.PUSH1 (0x60), opcode_values.PUSH32 (0x7f), opcode_values.STOP
PUSH1 == 96
PUSH32 == 127
STOP == 0
\* the lookback width of _potentially_disqualifying_opcode_positions
LookBack == 32

PUSH2 == PUSH1 + 1
PUSH31 == PUSH32 - 1
ADD == STOP + 1

----------------------------------------------------------------------------
(* Bounds of the model *)

\* short buffers of the classifier: every byte string of length 0..MaxLen over Alphabet
MaxLen == 4
\* buffers under the cursor operations: length 0..CursorLen
CursorLen == 2
\* long buffers: LongLen bytes, a head byte followed by one repeated byte
LongLen == 34
\* positions probed on a long buffer: the last ProbeSpan ones (and those near 0)
ProbeSpan == 3
\* arguments this far below 0 and beyond the length
Margin == 1
\* seek() scopes open at once
MaxGuards == 2
\* the same two bounds where cursor and classifier operations interleave
MixLen == 2
MixGuards == 1

Alphabet == {ADD, PUSH1, PUSH2}

RECURSIVE SeqsUpTo(_, _)
SeqsUpTo(S, n) ==
    IF n = 0 THEN {<<>>}
    ELSE LET shorter == SeqsUpTo(S, n - 1)
         IN shorter \cup {Append(s, b) : s \in {t \in shorter : Len(t) = n - 1}, b \in S}

ShortCodes == SeqsUpTo(Alphabet, MaxLen)

Filled(head, fill, n) == [i \in 1..n |-> IF i = 1 THEN head ELSE fill]

LongCodes == {Filled(head, fill, LongLen) :
                  head \in {PUSH1, PUSH31, PUSH32}, fill \in {STOP, PUSH1}}

Min(a, b) == IF a <= b THEN a ELSE b
Max(a, b) == IF a >= b THEN a ELSE b

\* arguments tried for is_valid_opcode(position) on buffer c
Positions(c) ==
    IF Len(c) <= MaxLen
    THEN (0 - Margin)..(Len(c) - 1 + Margin)
    ELSE ((0 - Margin)..Margin) \cup ((Len(c) - ProbeSpan)..(Len(c) - 1 + Margin))

----------------------------------------------------------------------------
(* Bytecode cursor *)

\* CodeStream.__len__
__len__ == Len(code)

\* io.BytesIO.read(size) at position p: the bytes returned. A negative size reads
\* to the end.
ReadBytes(p, size) ==
    LET stop == IF size < 0 THEN __len__ ELSE Min(p + size, __len__)
    IN [k \in 1..(stop - p) |-> code[p + k]]

NoCall == [position |-> 0, valid0 |-> {}, invalid0 |-> {}, reads |-> {},
           invocations |-> 0, depth |-> 0, seen |-> FALSE, state |-> "none",
           result |-> FALSE]
NoHist == [returned |-> {}, scanned |-> {}, rescanned |-> {}]
NoOp == [op |-> "init", arg |-> 0, pc0 |-> 0, result |-> <<>>, raised |-> FALSE,
         anchor |-> 0]

\* no is_valid_opcode call is executing: the program is single-threaded, so
\* other operations start only then
Idle == frames = <<>> /\ ret = <<>>

\* mutant: read advances by the size asked for, not by the bytes returned
read_advances_by_size(size) ==
    /\ Idle
    /\ LET data == ReadBytes(pc, size)
       IN /\ pc' = IF size < 0 THEN pc + Len(data) ELSE pc + size
          /\ last' = [NoOp EXCEPT !.op = "read", !.arg = size, !.pc0 = pc,
                                  !.result = data]
    /\ call' = NoCall
    /\ UNCHANGED <<code, memo, anchors, frames, ret, hist>>

\* CodeStream.read
read(size) ==
    /\ Idle
    /\ LET data == ReadBytes(pc, size)
       IN /\ pc' = pc + Len(data)
          /\ last' = [NoOp EXCEPT !.op = "read", !.arg = size, !.pc0 = pc,
                                  !.result = data]
    /\ call' = NoCall
    /\ UNCHANGED <<code, memo, anchors, frames, ret, hist>>

\* mutant: at the end the cursor still advances past the byte it did not read
_next_advances_at_end(p) ==
    LET next_opcode_as_byte == ReadBytes(p, 1)
    IN IF Len(next_opcode_as_byte) > 0
       THEN [value |-> next_opcode_as_byte[1], pc |-> p + 1]
       ELSE [value |-> STOP, pc |-> p + 1]

\* CodeStream._next from position p: the opcode returned and the position after
_next(p) ==
    LET next_opcode_as_byte == ReadBytes(p, 1)
    IN IF Len(next_opcode_as_byte) > 0
       THEN [value |-> next_opcode_as_byte[1], pc |-> p + Len(next_opcode_as_byte)]
       ELSE [value |-> STOP, pc |-> p]

\* CodeStream.__next__
__next__ ==
    /\ Idle
    /\ LET n == _next(pc)
       IN /\ pc' = n.pc
          /\ last' = [NoOp EXCEPT !.op = "next", !.pc0 = pc, !.result = n.value]
    /\ call' = NoCall
    /\ UNCHANGED <<code, memo, anchors, frames, ret, hist>>

\* mutant: the target is not clamped to the length
pc_setter_unclamped(p, value) ==
    IF value < 0
    THEN [pc |-> p, raised |-> TRUE]
    ELSE [pc |-> value, raised |-> FALSE]

\* mutant: a negative target is clamped to 0 like one beyond the length
pc_setter_clamps_negative(p, value) ==
    [pc |-> Max(0, Min(value, __len__)), raised |-> FALSE]

\* CodeStream.pc setter with the stream at position p: io.BytesIO.seek raises
\* ValueError on a negative target and leaves the position alone
pc_setter(p, value) ==
    LET target == Min(value, __len__)
    IN IF target < 0
       THEN [pc |-> p, raised |-> TRUE]
       ELSE [pc |-> target, raised |-> FALSE]

\* the assignment  stream.pc = value
set_pc(value) ==
    /\ Idle
    /\ LET s == pc_setter(pc, value)
       IN /\ pc' = s.pc
          /\ last' = [NoOp EXCEPT !.op = "set_pc", !.arg = value, !.pc0 = pc,
                                  !.raised = s.raised]
    /\ call' = NoCall
    /\ UNCHANGED <<code, memo, anchors, frames, ret, hist>>

\* mutant: the saved position is not put back
peek_without_restore ==
    /\ Idle
    /\ LET n == _next(pc)
       IN /\ pc' = n.pc
          /\ last' = [NoOp EXCEPT !.op = "peek", !.pc0 = pc, !.result = n.value]
    /\ call' = NoCall
    /\ UNCHANGED <<code, memo, anchors, frames, ret, hist>>

\* CodeStream.peek
peek ==
    /\ Idle
    /\ LET current_pc == pc
           n == _next(pc)
           s == pc_setter(n.pc, current_pc)
       IN /\ pc' = s.pc
          /\ last' = [NoOp EXCEPT !.op = "peek", !.pc0 = pc, !.result = n.value,
                                  !.raised = s.raised]
    /\ call' = NoCall
    /\ UNCHANGED <<code, memo, anchors, frames, ret, hist>>

\* CodeStream.seek, entering the scope: anchor_pc is captured, then the cursor
\* moves. A raising pc setter leaves before the try, so no scope opens.
seek_enter(target) ==
    /\ Idle
    /\ LET anchor_pc == pc
           s == pc_setter(pc, target)
       IN /\ pc' = s.pc
          /\ anchors' = IF s.raised THEN anchors ELSE <<anchor_pc>> \o anchors
          /\ last' = [NoOp EXCEPT !.op = "seek_enter", !.arg = target, !.pc0 = pc,
                                  !.raised = s.raised, !.anchor = anchor_pc]
    /\ call' = NoCall
    /\ UNCHANGED <<code, memo, frames, ret, hist>>

\* mutant: no finally clause, the position stays where the body left it
seek_restore_missing(p, anchor_pc) == [pc |-> p, raised |-> FALSE]

\* the position the finally clause of seek leaves, from position p
seek_restore(p, anchor_pc) == pc_setter(p, anchor_pc)

\* CodeStream.seek, leaving the innermost scope, normally or (raised) with an
\* exception of the body passing through the finally clause
seek_exit(raised) ==
    /\ Idle
    /\ anchors # <<>>
    /\ LET anchor_pc == Head(anchors)
           s == seek_restore(pc, anchor_pc)
       IN /\ pc' = s.pc
          /\ anchors' = Tail(anchors)
          /\ last' = [NoOp EXCEPT !.op = "seek_exit", !.pc0 = pc,
                                  !.raised = raised \/ s.raised,
                                  !.anchor = anchor_pc]
    /\ call' = NoCall
    /\ UNCHANGED <<code, memo, frames, ret, hist>>

----------------------------------------------------------------------------
(* Opcode validity classifier *)

\* CodeStream.__getitem__ as the classifier uses it: Python indexing of a bytes
\* object, where an index in -len..-1 counts from the end and any other index
\* outside 0..len-1 raises IndexError. <<byte>>, or <<>> for the IndexError.
__getitem__(i) ==
    IF 0 <= i /\ i < __len__ THEN <<code[i + 1]>>
    ELSE IF 0 - __len__ <= i /\ i < 0 THEN <<code[__len__ + i + 1]>>
    ELSE <<>>

\* the expression  stream[i]  evaluated by a caller
getitem(i) ==
    /\ Idle
    /\ LET b == __getitem__(i)
       IN last' = IF b = <<>>
                  THEN [NoOp EXCEPT !.op = "getitem", !.arg = i, !.pc0 = pc,
                                    !.raised = TRUE]
                  ELSE [NoOp EXCEPT !.op = "getitem", !.arg = i, !.pc0 = pc,
                                    !.result = b[1]]
    /\ call' = NoCall
    /\ UNCHANGED <<code, pc, memo, anchors, frames, ret, hist>>

\* mutant: the lookback not clamped to the positions that exist
deepest_lookback_unclamped(position) == LookBack

\* mutant: the lookback stops one byte short of the widest push
deepest_lookback_short(position) == Min(LookBack - 1, position)

\* deepest_lookback of _potentially_disqualifying_opcode_positions
deepest_lookback(position) == Min(LookBack, position)

\* mutant: the width a push needs to reach position is off by one
is_disqualifier_off_by_one(opcode, bytes_back) ==
    PUSH1 + bytes_back <= opcode /\ opcode <= PUSH32

\* the if of the generator's loop body: does the opcode at bytes_back before
\* position push at least bytes_back bytes
is_disqualifier(opcode, bytes_back) ==
    PUSH1 + (bytes_back - 1) <= opcode /\ opcode <= PUSH32

\* _potentially_disqualifying_opcode_positions, resumed with its loop variable at
\* bytes_back: the loop variable at the next yield, 0 when the loop ends without
\* one, -1 when indexing raises
RECURSIVE next_yield(_, _)
next_yield(position, bytes_back) ==
    IF bytes_back <= 0 THEN 0
    ELSE LET earlier_position == position - bytes_back
             opcode == __getitem__(earlier_position)
         IN IF opcode = <<>> THEN 0 - 1
            ELSE IF is_disqualifier(opcode[1], bytes_back) THEN bytes_back
            ELSE next_yield(position, bytes_back - 1)

\* the offsets the generator indexes between a resumption at bytes_back and the
\* outcome y of next_yield
offsets_read(position, bytes_back, y) ==
    {position - b : b \in (IF y >= 1 THEN y ELSE 1)..bytes_back}

\* history of one returned invocation (kept for positions below the length: at or
\* beyond it the first early return answers, whatever happened before)
Returned(h, position, b) ==
    IF position < __len__ THEN [h EXCEPT !.returned = @ \cup {<<position, b>>}] ELSE h

\* mutant: the range check lets position = length through
Invoke_past_the_end(position, fr, c, h) ==
    LET c1 == [c EXCEPT !.invocations = @ + 1,
                        !.depth = Max(@, Len(fr) + 1)]
    IN IF position > __len__
       THEN [frames |-> fr, ret |-> <<FALSE>>, call |-> c1,
             hist |-> Returned(h, position, FALSE)]
       ELSE IF position \in invalid_positions
       THEN [frames |-> fr, ret |-> <<FALSE>>, call |-> c1,
             hist |-> Returned(h, position, FALSE)]
       ELSE IF position \in valid_positions
       THEN [frames |-> fr, ret |-> <<TRUE>>, call |-> c1,
             hist |-> Returned(h, position, TRUE)]
       ELSE [frames |-> <<[position |-> position,
                           bytes_back |-> deepest_lookback(position)]>> \o fr,
             ret |-> <<>>,
             call |-> c1,
             hist |-> [h EXCEPT !.scanned = @ \cup {position},
                                !.rescanned = @ \cup ({position} \cap h.scanned)]]

\* mutant: the valid half of the memo is never consulted
Invoke_forgets_valid(position, fr, c, h) ==
    LET c1 == [c EXCEPT !.invocations = @ + 1,
                        !.depth = Max(@, Len(fr) + 1)]
    IN IF position >= __len__
       THEN [frames |-> fr, ret |-> <<FALSE>>, call |-> c1,
             hist |-> Returned(h, position, FALSE)]
       ELSE IF position \in invalid_positions
       THEN [frames |-> fr, ret |-> <<FALSE>>, call |-> c1,
             hist |-> Returned(h, position, FALSE)]
       ELSE [frames |-> <<[position |-> position,
                           bytes_back |-> deepest_lookback(position)]>> \o fr,
             ret |-> <<>>,
             call |-> c1,
             hist |-> [h EXCEPT !.scanned = @ \cup {position},
                                !.rescanned = @ \cup ({position} \cap h.scanned)]]

\* an invocation is_valid_opcode(position) made with the invocations in fr
\* suspended below it: the three early returns, else the scan begins
Invoke(position, fr, c, h) ==
    LET c1 == [c EXCEPT !.invocations = @ + 1,
                        !.depth = Max(@, Len(fr) + 1)]
    IN IF position >= __len__
       THEN [frames |-> fr, ret |-> <<FALSE>>, call |-> c1,
             hist |-> Returned(h, position, FALSE)]
       ELSE IF position \in invalid_positions
       THEN [frames |-> fr, ret |-> <<FALSE>>, call |-> c1,
             hist |-> Returned(h, position, FALSE)]
       ELSE IF position \in valid_positions
       THEN [frames |-> fr, ret |-> <<TRUE>>, call |-> c1,
             hist |-> Returned(h, position, TRUE)]
       ELSE [frames |-> <<[position |-> position,
                           bytes_back |-> deepest_lookback(position)]>> \o fr,
             ret |-> <<>>,
             call |-> c1,
             hist |-> [h EXCEPT !.scanned = @ \cup {position},
                                !.rescanned = @ \cup ({position} \cap h.scanned)]]

\* mutant: the classifier moves the stream to the position it is asked about
is_valid_opcode_moves_cursor(position) ==
    /\ Idle
    /\ LET c == [NoCall EXCEPT !.position = position,
                               !.valid0 = valid_positions,
                               !.invalid0 = invalid_positions,
                               !.seen = \E b \in BOOLEAN :
                                            <<position, b>> \in hist.returned,
                               !.state = "running"]
           r == Invoke(position, <<>>, c, hist)
       IN /\ frames' = r.frames
          /\ ret' = r.ret
          /\ call' = r.call
          /\ hist' = r.hist
    /\ last' = [NoOp EXCEPT !.op = "is_valid_opcode", !.arg = position, !.pc0 = pc]
    /\ pc' = pc_setter(pc, position).pc
    /\ UNCHANGED <<code, anchors, memo>>

\* a caller invokes is_valid_opcode(position)
is_valid_opcode(position) ==
    /\ Idle
    /\ LET c == [NoCall EXCEPT !.position = position,
                               !.valid0 = valid_positions,
                               !.invalid0 = invalid_positions,
                               !.seen = \E b \in BOOLEAN :
                                            <<position, b>> \in hist.returned,
                               !.state = "running"]
           r == Invoke(position, <<>>, c, hist)
       IN /\ frames' = r.frames
          /\ ret' = r.ret
          /\ call' = r.call
          /\ hist' = r.hist
    /\ last' = [NoOp EXCEPT !.op = "is_valid_opcode", !.arg = position, !.pc0 = pc]
    /\ UNCHANGED <<code, pc, anchors, memo>>

\* mutant: a position found valid replaces the set of valid positions (= for |=)
scan_overwrites_valid ==
    /\ frames # <<>>
    /\ ret = <<>>
    /\ LET f == Head(frames)
           y == next_yield(f.position, f.bytes_back)
           c == [call EXCEPT !.reads = @ \cup
                     {<<f.position, o>> : o \in offsets_read(f.position, f.bytes_back, y)}]
       IN IF y < 0
          THEN /\ frames' = <<>>
               /\ ret' = <<>>
               /\ call' = [c EXCEPT !.state = "raised"]
               /\ UNCHANGED <<hist, memo>>
          ELSE IF y = 0
          THEN /\ valid_positions' = {f.position}
               /\ frames' = Tail(frames)
               /\ ret' = <<TRUE>>
               /\ call' = c
               /\ hist' = Returned(hist, f.position, TRUE)
               /\ UNCHANGED invalid_positions
          ELSE LET r == Invoke(f.position - y,
                               <<[f EXCEPT !.bytes_back = y]>> \o Tail(frames), c, hist)
               IN /\ frames' = r.frames
                  /\ ret' = r.ret
                  /\ call' = r.call
                  /\ hist' = r.hist
                  /\ UNCHANGED memo
    /\ UNCHANGED <<code, cursor>>

\* the for statement of the innermost invocation asks the generator for its next
\* disqualifier: none left, so the position is valid; or one, which is invoked
scan ==
    /\ frames # <<>>
    /\ ret = <<>>
    /\ LET f == Head(frames)
           y == next_yield(f.position, f.bytes_back)
           c == [call EXCEPT !.reads = @ \cup
                     {<<f.position, o>> : o \in offsets_read(f.position, f.bytes_back, y)}]
       IN IF y < 0
          THEN \* IndexError unwinds every invocation
               /\ frames' = <<>>
               /\ ret' = <<>>
               /\ call' = [c EXCEPT !.state = "raised"]
               /\ UNCHANGED <<hist, memo>>
          ELSE IF y = 0
          THEN /\ valid_positions' = valid_positions \cup {f.position}
               /\ frames' = Tail(frames)
               /\ ret' = <<TRUE>>
               /\ call' = c
               /\ hist' = Returned(hist, f.position, TRUE)
               /\ UNCHANGED invalid_positions
          ELSE LET r == Invoke(f.position - y,
                               <<[f EXCEPT !.bytes_back = y]>> \o Tail(frames), c, hist)
               IN /\ frames' = r.frames
                  /\ ret' = r.ret
                  /\ call' = r.call
                  /\ hist' = r.hist
                  /\ UNCHANGED memo
    /\ UNCHANGED <<code, cursor>>

\* mutant: the position is marked invalid but the loop goes on (no return False)
resume_without_return ==
    /\ frames # <<>>
    /\ ret # <<>>
    /\ LET f == Head(frames)
       IN IF ret[1]
          THEN /\ invalid_positions' = invalid_positions \cup {f.position}
               /\ frames' = <<[f EXCEPT !.bytes_back = @ - 1]>> \o Tail(frames)
               /\ ret' = <<>>
               /\ UNCHANGED <<hist, valid_positions>>
          ELSE /\ frames' = <<[f EXCEPT !.bytes_back = @ - 1]>> \o Tail(frames)
               /\ ret' = <<>>
               /\ UNCHANGED <<hist, memo>>
    /\ UNCHANGED <<code, cursor, call>>

\* mutant: False is returned without the position being put in the memo
resume_without_memo ==
    /\ frames # <<>>
    /\ ret # <<>>
    /\ LET f == Head(frames)
       IN IF ret[1]
          THEN /\ frames' = Tail(frames)
               /\ ret' = <<FALSE>>
               /\ hist' = Returned(hist, f.position, FALSE)
               /\ UNCHANGED memo
          ELSE /\ frames' = <<[f EXCEPT !.bytes_back = @ - 1]>> \o Tail(frames)
               /\ ret' = <<>>
               /\ UNCHANGED <<hist, memo>>
    /\ UNCHANGED <<code, cursor, call>>

\* the recursive invocation has returned into the innermost scanning invocation:
\* a valid disqualifier makes the position invalid, an invalid one resumes the loop
resume ==
    /\ frames # <<>>
    /\ ret # <<>>
    /\ LET f == Head(frames)
       IN IF ret[1]
          THEN /\ invalid_positions' = invalid_positions \cup {f.position}
               /\ frames' = Tail(frames)
               /\ ret' = <<FALSE>>
               /\ hist' = Returned(hist, f.position, FALSE)
               /\ UNCHANGED valid_positions
          ELSE /\ frames' = <<[f EXCEPT !.bytes_back = @ - 1]>> \o Tail(frames)
               /\ ret' = <<>>
               /\ UNCHANGED <<hist, memo>>
    /\ UNCHANGED <<code, cursor, call>>

\* the outermost invocation returns to the caller
return ==
    /\ frames = <<>>
    /\ ret # <<>>
    /\ call' = [call EXCEPT !.state = "returned", !.result = ret[1]]
    /\ ret' = <<>>
    /\ UNCHANGED <<code, cursor, memo, frames, hist>>

----------------------------------------------------------------------------
(* Specifications *)

Init0 ==
    /\ pc = 0
    /\ valid_positions = {}
    /\ invalid_positions = {}
    /\ anchors = <<>>
    /\ frames = <<>>
    /\ ret = <<>>
    /\ call = NoCall
    /\ hist = NoHist
    /\ last = NoOp

\* every operation of a CodeStream, over the buffers of length 0..MixLen
Init == code \in SeqsUpTo(Alphabet, MixLen) /\ Init0
Next ==
    \/ \E size \in 0..MixLen : read(size)
    \/ __next__
    \/ peek
    \/ \E value \in 0..(__len__ + 1) : set_pc(value)
    \/ \E target \in 0..(__len__ + 1) : Len(anchors) < MixGuards /\ seek_enter(target)
    \/ \E raised \in BOOLEAN : seek_exit(raised)
    \/ \E i \in 0..__len__ : getitem(i)
    \/ \E position \in 0..__len__ : is_valid_opcode(position)
    \/ scan
    \/ resume
    \/ return
Spec == Init /\ [][Next]_vars

\* the cursor operations alone, over the buffers of length 0..CursorLen
InitCursor == code \in SeqsUpTo(Alphabet, CursorLen) /\ Init0
NextCursor ==
    \/ \E size \in (0 - Margin)..CursorLen : read(size)
    \/ __next__
    \/ peek
    \/ \E value \in (0 - Margin)..(__len__ + Margin) : set_pc(value)
    \/ \E target \in (0 - Margin)..(__len__ + Margin) :
           Len(anchors) < MaxGuards /\ seek_enter(target)
    \/ \E raised \in BOOLEAN : seek_exit(raised)
    \/ \E i \in (0 - __len__ - Margin)..(__len__ - 1 + Margin) : getitem(i)
SpecCursor == InitCursor /\ [][NextCursor]_vars

\* the classifier alone, over the short buffers and the long ones
InitValid == code \in ShortCodes \cup LongCodes /\ Init0
NextValid ==
    \/ \E position \in Positions(code) : is_valid_opcode(position)
    \/ scan
    \/ resume
    \/ return
SpecValid == InitValid /\ [][NextValid]_vars

----------------------------------------------------------------------------
(* The forward linear decode, the reference the classifier is compared with *)

IsPush(opcode) == PUSH1 <= opcode /\ opcode <= PUSH32
PushWidth(opcode) == IF IsPush(opcode) THEN opcode - PUSH1 + 1 ELSE 0

\* the instruction starts of c at or after the instruction start q
RECURSIVE DecodeFrom(_, _)
DecodeFrom(c, q) ==
    IF q >= Len(c) THEN {}
    ELSE {q} \cup DecodeFrom(c, q + PushWidth(c[q + 1]) + 1)

InstructionStarts(c) == DecodeFrom(c, 0)

\* position lies in the data region of a push that is an instruction start
InPushData(c, position) ==
    \E q \in InstructionStarts(c) :
        q < position /\ position <= q + PushWidth(c[q + 1])

InRange(position) == 0 <= position /\ position < __len__

----------------------------------------------------------------------------
(* Claims *)

\* C1: whatever the memo holds from earlier calls, is_valid_opcode(p) with
\* 0 <= p < length returns true exactly when p is an instruction start of the
\* forward linear decode from offset 0, and false exactly when p lies in the data
\* of a live push; so does every nested invocation.
C1_ValidIffInstructionStart ==
    LET starts == InstructionStarts(code)
    IN /\ call.state = "returned" /\ InRange(call.position) =>
              /\ call.result = (call.position \in starts)
              /\ call.result = ~InPushData(code, call.position)
       /\ \A r \in hist.returned :
              InRange(r[1]) => r[2] = (r[1] \in starts)

\* C1 witness: on [PUSH1, PUSH1, ADD], with 1 already known to be data of the
\* first push, position 2 was classified valid: the PUSH1 byte at 1 shadows nothing.
C1_Witness ==
    /\ code = <<PUSH1, PUSH1, ADD>>
    /\ call.state = "returned" /\ call.position = 2 /\ call.result
    /\ 1 \in call.invalid0

\* C2: valid_positions and invalid_positions never share an element.
C2_MemoDisjoint == valid_positions \cap invalid_positions = {}

\* C2 witness: both sets hold positions, some put there by negative arguments.
C2_Witness ==
    /\ Idle
    /\ \E p \in invalid_positions : p > 0
    /\ \E p \in valid_positions : p < 0
    /\ \E p \in valid_positions : p > 0

\* C7: a call on a position an invocation has already returned for returns that
\* same result, reads no byte, invokes nothing and leaves the memo alone (at or
\* beyond the length that is so from the first call on); no position's scan
\* begins twice, and no position is ever given two answers.
C7_MemoIdempotent ==
    /\ hist.rescanned = {}
    /\ \A r1, r2 \in hist.returned : r1[1] = r2[1] => r1[2] = r2[2]
    /\ call.state \in {"running", "returned"}
           /\ (call.seen \/ call.position >= __len__) =>
           /\ call.reads = {}
           /\ call.invocations = 1
           /\ frames = <<>>
           /\ valid_positions = call.valid0
           /\ invalid_positions = call.invalid0
    /\ call.state = "returned" /\ call.seen =>
           <<call.position, call.result>> \in hist.returned

\* C7 witness: a second call on a position known to be push data has returned.
C7_Witness ==
    /\ call.state = "returned" /\ call.seen /\ ~call.result
    /\ call.position \in invalid_positions
    /\ call.position > 1

\* C3: every release of a seek scope puts the cursor back where it was when that
\* scope was acquired, whatever the target (beyond the length too), whatever the
\* body did to the position, however the scope is left, and at every nesting
\* depth: an acquire pushes the current position, the operations in between leave
\* the captured positions alone, a release pops the innermost and restores it.
C3_SeekRestores ==
    /\ [](/\ \A i \in 1..Len(anchors) : 0 <= anchors[i] /\ anchors[i] <= __len__
          /\ last.op = "seek_exit" => pc = last.anchor
          /\ last.op = "seek_enter" /\ ~last.raised =>
                 /\ anchors # <<>>
                 /\ Head(anchors) = last.pc0
                 /\ pc = Min(last.arg, __len__))
    /\ [][/\ Len(anchors') > Len(anchors) => anchors' = <<pc>> \o anchors
          /\ Len(anchors') = Len(anchors) => anchors' = anchors
          /\ Len(anchors') < Len(anchors) =>
                 /\ pc' = Head(anchors)
                 /\ anchors' = Tail(anchors)]_vars

\* C3 witness: an inner scope, left by an exception, has put the cursor back to a
\* position that differs both from where the body left it and from the position
\* the outer scope, still open, will restore.
C3_Witness ==
    /\ last.op = "seek_exit" /\ last.raised
    /\ pc = last.anchor /\ last.pc0 # pc
    /\ anchors # <<>> /\ Head(anchors) # pc

\* C4: peek() returns what next() returns from the same state (the byte at the
\* position, STOP at the end), and leaves position and memo as they were;
\* consecutive peeks return the same value.
C4_PeekIsPure ==
    /\ [](last.op = "peek" =>
              /\ pc = last.pc0
              /\ ~last.raised
              /\ last.result = IF pc < __len__ THEN code[pc + 1] ELSE STOP)
    /\ [][/\ last'.op = "peek" =>
                 /\ pc' = pc
                 /\ valid_positions' = valid_positions
                 /\ invalid_positions' = invalid_positions
                 /\ anchors' = anchors
          /\ last.op = "peek" /\ last'.op = "peek" => last'.result = last.result]_vars

\* C4 witness: a peek in the middle of a buffer, the memo holding positions of
\* both kinds, has returned the byte under the cursor.
C4_Witness ==
    /\ last.op = "peek" /\ 0 < pc /\ pc < __len__
    /\ last.result = code[pc + 1]
    /\ valid_positions # {} /\ invalid_positions # {}

\* C5: next() at position = length returns STOP and leaves the position at the
\* length, call after call; below the length it returns the byte at the position
\* and advances by exactly 1.
C5_NextAtEndIsStop ==
    last.op = "next" =>
        IF last.pc0 >= __len__
        THEN last.result = STOP /\ pc = __len__ /\ last.pc0 = __len__
        ELSE last.result = code[last.pc0 + 1] /\ pc = last.pc0 + 1

\* C5 witness: next() was called at the end of a non-empty buffer.
C5_Witness ==
    /\ last.op = "next" /\ last.pc0 = __len__ /\ __len__ > 0
    /\ last.result = STOP /\ pc = __len__

\* C6: the cursor position is always within 0..length, and assigning a target
\* greater than the length sets it to exactly the length without an error.
C6_PositionInRange ==
    /\ 0 <= pc /\ pc <= __len__
    /\ last.op = "set_pc" /\ last.arg > __len__ => pc = __len__ /\ ~last.raised

\* C6 witness: a target beyond the length was assigned from below the length,
\* inside a seek scope.
C6_Witness ==
    /\ last.op = "set_pc" /\ last.arg > __len__ /\ last.pc0 < __len__
    /\ pc = __len__ /\ anchors # <<>>

\* the positions in range whose scan has not begun
Unscanned ==
    {q \in 0..(__len__ - 1) :
        /\ q \notin valid_positions \cup invalid_positions
        /\ \A i \in 1..Len(frames) : frames[i].position # q}

\* what is left of the loop of the i-th invocation, twice over, plus the step
\* that takes its result
FrameWeight(i) ==
    2 * Max(frames[i].bytes_back, 0) + (IF i = 1 /\ ret = <<>> THEN 2 ELSE 1)

RECURSIVE FramesWeight(_)
FramesWeight(i) == IF i = 0 THEN 0 ELSE FrameWeight(i) + FramesWeight(i - 1)

\* a natural number every step of a running call lowers
Variant ==
    Cardinality(Unscanned) * (2 * LookBack + 3)
        + FramesWeight(Len(frames))
        + (IF frames = <<>> /\ ret # <<>> THEN 1 ELSE 0)

C8_Safe ==
    \* each recursive call is on a strictly smaller position, one a loop yielded
    /\ \A i \in 1..Len(frames) :
           (i > 1 \/ ret # <<>>) =>
               /\ frames[i].bytes_back >= 1
               /\ frames[i].bytes_back <= LookBack
               /\ frames[i].position - frames[i].bytes_back >= 0
    /\ \A i \in 2..Len(frames) :
           frames[i - 1].position = frames[i].position - frames[i].bytes_back
    \* every byte read for position p is at an offset in max(0, p - 32)..p - 1
    /\ \A r \in call.reads :
           Max(0, r[1] - LookBack) <= r[2] /\ r[2] <= r[1] - 1
    \* no bounds fault, and a running call always has its next step pending
    /\ call.state # "raised"
    /\ call.state = "running" => ~Idle
    /\ call.state = "returned" => call.result \in BOOLEAN /\ Idle
    /\ Variant >= 0

C9_DepthAtMost32 == call.depth <= LookBack /\ Len(frames) <= LookBack

\* C10: is_valid_opcode(p) with p >= length returns false at once and adds p to
\* neither memo set.
C10_BeyondLengthIsFalse ==
    call.state \in {"running", "returned"} /\ call.position >= __len__ =>
        /\ call.state = "returned" => ~call.result
        /\ frames = <<>>
        /\ call.reads = {}
        /\ valid_positions = call.valid0
        /\ invalid_positions = call.invalid0
        /\ call.position \notin valid_positions \cup invalid_positions

\* C10 witness: on a non-empty buffer with a non-empty memo, p = length came back false.
C10_Witness ==
    /\ call.state = "returned" /\ call.position = __len__ /\ ~call.result
    /\ __len__ > 0
    /\ valid_positions # {} /\ invalid_positions # {}

----------------------------------------------------------------------------
\* C11: the memo only grows. In every step of every sequence of operations
\* a position that is in valid_positions stays in valid_positions, one that
\* is in invalid_positions stays in invalid_positions, and none is moved to
\* the other set.
C11_MemoMonotone ==
    [][/\ valid_positions \subseteq valid_positions'
       /\ invalid_positions \subseteq invalid_positions'
       /\ valid_positions \cap invalid_positions' = {}
       /\ invalid_positions \cap valid_positions' = {}]_vars

\* both sets hold a position (the second was added while the first was
\* there) and a seek scope has been opened and closed since
C11_Witness ==
    /\ valid_positions # {}
    /\ invalid_positions # {}
    /\ last.op = "seek_exit"

----------------------------------------------------------------------------
\* C12: for every size n >= 0 and every position pos in 0..length, read(n)
\* returns the bytes at offsets pos .. min(pos + n, length) - 1 in buffer
\* order and leaves the position at min(pos + n, length); at pos = length
\* it returns the empty sequence and does not move. It raises nothing.
C12_ReadIsClamped ==
    last.op = "read" /\ last.arg >= 0 =>
        LET stop == Min(last.pc0 + last.arg, __len__)
        IN /\ last.result = SubSeq(code, last.pc0 + 1, stop)
           /\ pc = stop
           /\ ~last.raised
           /\ last.pc0 = __len__ => last.result = <<>> /\ pc = last.pc0

\* C12 witness: a read of two bytes one byte before the end returned one
\* byte and stopped at the end
C12_Witness ==
    /\ last.op = "read" /\ last.arg = 2 /\ last.pc0 = __len__ - 1
    /\ Len(last.result) = 1 /\ pc = __len__

----------------------------------------------------------------------------
\* C13: stream[i] returns the byte at offset i when 0 <= i < length,
\* whatever the cursor position, and signals a bounds fault for every i
\* outside that range, below 0 as well as at or beyond the length; either
\* way the position and the memo are as before.
C13_IndexFaultsOutsideRange ==
    last.op = "getitem" =>
        /\ IF 0 <= last.arg /\ last.arg < __len__
           THEN ~last.raised /\ last.result = code[last.arg + 1]
           ELSE last.raised
        /\ pc = last.pc0

----------------------------------------------------------------------------
\* C14: is_valid_opcode(p) leaves the cursor position, the buffer and its
\* length as they were (of the object's state only the memo changes), and
\* the result is a function of the buffer and p alone: it is the same
\* wherever the cursor stands and whatever seek scopes are open.
C14_ClassifierLeavesCursor ==
    /\ [](call.state # "none" =>
             /\ last.op = "is_valid_opcode" /\ last.arg = call.position
             /\ pc = last.pc0)
    /\ [](call.state = "returned" =>
             LET starts == InstructionStarts(code)
             IN call.result = (call.position \in starts))
    /\ [][code' = code]_vars
    /\ [][last'.op = "is_valid_opcode" => pc' = pc /\ anchors' = anchors]_vars

\* C14 witness: a call made with the cursor off the start of the buffer,
\* inside a seek scope, has returned False after adding to the memo
C14_Witness ==
    /\ call.state = "returned" /\ ~call.result
    /\ call.position \in invalid_positions \ call.invalid0
    /\ pc > 0 /\ pc = last.pc0 /\ anchors # <<>>

----------------------------------------------------------------------------
\* C15: after any sequence of is_valid_opcode calls, with arbitrary integer
\* arguments, every element of valid_positions and of invalid_positions is
\* an offset q with 0 <= q < length.
C15_MemoInRange ==
    \A q \in valid_positions \cup invalid_positions : InRange(q)

----------------------------------------------------------------------------
\* the pushes that are instruction starts, lie at most 32 bytes before
\* position and have position in their data region
LiveCovers(c, position) ==
    {q \in InstructionStarts(c) :
        /\ position - LookBack <= q /\ q < position
        /\ position <= q + PushWidth(c[q + 1])}

\* the classifier with the candidates taken nearest first: bytes_back runs
\* from 1 up to min(32, position), started from an empty memo
RECURSIVE AscendingValid(_, _)
RECURSIVE AscendingScan(_, _, _)
AscendingScan(c, position, bytes_back) ==
    IF bytes_back > Min(LookBack, position) THEN TRUE
    ELSE LET opcode == c[position - bytes_back + 1]
         IN IF /\ PUSH1 + (bytes_back - 1) <= opcode /\ opcode <= PUSH32
               /\ AscendingValid(c, position - bytes_back)
            THEN FALSE
            ELSE AscendingScan(c, position, bytes_back + 1)

AscendingValid(c, position) ==
    IF position >= Len(c) THEN FALSE
    ELSE AscendingScan(c, position, 1)

\* C16: at most one push that is an instruction start lies in the 32-byte
\* window before a position p and covers p, so the order in which the
\* candidates are examined cannot change the answer: a classifier scanning
\* bytes_back upwards from 1 returns, for every position of the buffer, what
\* is_valid_opcode (scanning downwards from min(32, p)) returns.
C16_ScanOrderIrrelevant ==
    call.state = "returned" /\ InRange(call.position) =>
        /\ call.result = AscendingValid(code, call.position)
        /\ Cardinality(LiveCovers(code, call.position)) <= 1

\* C16 witness: a call has returned False for a position with two candidates
\* in its window, the nearer one a push that is itself push data
C16_Witness ==
    /\ call.state = "returned" /\ ~call.result /\ call.position >= 2
    /\ Cardinality(LiveCovers(code, call.position)) = 1
    /\ \E q \in 0..(call.position - 1) :
           /\ IsPush(code[q + 1]) /\ call.position <= q + PushWidth(code[q + 1])
           /\ q \notin InstructionStarts(code)

----------------------------------------------------------------------------
\* C17: assigning a negative target to the position, directly or by entering
\* a seek scope, is rejected with an error and leaves the position at its
\* previous value (no scope is opened); the position is negative in no
\* reachable state.
C17_NegativeTargetRejected ==
    /\ [](pc >= 0)
    /\ [](last.op \in {"set_pc", "seek_enter"} /\ last.arg < 0 =>
             last.raised /\ pc = last.pc0)
    /\ [][last'.op = "seek_enter" /\ last'.arg < 0 =>
             pc' = pc /\ anchors' = anchors]_vars

\* C17 witness: inside an open seek scope, with the cursor off the start,
\* entering a further scope with a negative target raised and moved nothing
C17_Witness ==
    /\ last.op = "seek_enter" /\ last.arg < 0 /\ last.raised
    /\ pc = last.pc0 /\ pc > 0 /\ Len(anchors) = 1

----------------------------------------------------------------------------
\* the candidates of position that are pushes wide enough to reach it
Candidates(c, position) ==
    {q \in (position - Min(LookBack, position))..(position - 1) :
        PUSH1 + (position - q - 1) <= c[q + 1] /\ c[q + 1] <= PUSH32}

\* the positions the latest call has added to the memo
Added ==
    (valid_positions \cup invalid_positions) \ (call.valid0 \cup call.invalid0)

\* C18: when is_valid_opcode(p), for a p not yet classified, comes upon its
\* first valid candidate q (candidates taken farthest first), it adds p to
\* invalid_positions and returns False at once, the remaining candidates
\* unexamined: the call adds no position strictly between q and p to either
\* set, and every position it adds is at most p.
C18_ReturnsAtFirstValid ==
    /\ [](/\ call.state = "returned"
          /\ InRange(call.position)
          /\ call.position \notin call.valid0 \cup call.invalid0
          /\ Candidates(code, call.position) \cap InstructionStarts(code) # {}
          => LET p == call.position
                 live == Candidates(code, p) \cap InstructionStarts(code)
                 q == CHOOSE x \in live : \A z \in live : x <= z
             IN /\ ~call.result
                /\ p \in invalid_positions
                /\ \A a \in Added : a <= p
                /\ \A a \in Added : ~(q < a /\ a < p)
                /\ \A e \in call.reads : e[1] = p => e[2] <= q)
    /\ [][frames # <<>> /\ ret = <<TRUE>> =>
             /\ frames' = Tail(frames)
             /\ ret' = <<FALSE>>
             /\ invalid_positions' = invalid_positions \cup {Head(frames).position}
             /\ valid_positions' = valid_positions]_vars

\* C18 witness: the call returned at a valid candidate q two or more bytes
\* back, and a nearer candidate was left unexamined and unclassified
C18_Witness ==
    /\ call.state = "returned" /\ ~call.result
    /\ call.position \in invalid_positions \ call.invalid0
    /\ \E q \in Candidates(code, call.position) \cap InstructionStarts(code) :
           \E n \in Candidates(code, call.position) :
               /\ q < n
               /\ n \notin valid_positions \cup invalid_positions
               /\ <<call.position, n>> \notin call.reads

----------------------------------------------------------------------------
\* C19: right after is_valid_opcode(p) returns for a p with 0 <= p < length,
\* p is in exactly one of the two memo sets: in valid_positions when the
\* call returned True, in invalid_positions when it returned False.
C19_ResultIsMemoized ==
    call.state = "returned" /\ InRange(call.position) =>
        /\ call.result => call.position \in valid_positions \ invalid_positions
        /\ ~call.result => call.position \in invalid_positions \ valid_positions

\* C19 witness: a call on a position not classified before has returned
\* True after a candidate of it was found invalid
C19_Witness ==
    /\ call.state = "returned" /\ call.result /\ InRange(call.position)
    /\ call.position \in valid_positions \ call.valid0
    /\ invalid_positions \ call.invalid0 # {}

----------------------------------------------------------------------------
\* C20: the memo is sound in every reachable state, the states in the
\* middle of a recursive call included: for calls with arguments >= 0,
\* every position in valid_positions is an instruction start of the forward
\* decode of the buffer and every position in invalid_positions lies in the
\* data region of a push that is an instruction start. (A negative argument
\* adds only itself, C15; the statement is about the positions >= 0.)
C20_MemoSound ==
    LET starts == InstructionStarts(code)
    IN /\ \A v \in valid_positions : v >= 0 => v \in starts
       /\ \A i \in invalid_positions :
             \E q \in starts : q < i /\ i <= q + PushWidth(code[q + 1])

\* C20 witness: two invocations deep in a call, with both sets already
\* holding positions of the buffer
C20_Witness ==
    /\ Len(frames) >= 2
    /\ \E v \in valid_positions : v >= 0
    /\ invalid_positions # {}

====
